---------------------------- MODULE Spec2Model ----------------------------
(***************************************************************************)
(* A model of the arcade shooter of src/src/main.rs, src/src/enemy.rs and  *)
(* src/src/player.rs.                                                      *)
(*                                                                         *)
(* Lengths are integers in sub-pixel units (PX units per pixel), chosen so *)
(* that one tick of travel, speed * TIME_PER_FRAME, is a whole number.     *)
(* The systems of one stage pass run in an order the engine chooses; the   *)
(* commands they issue (spawn, despawn) are deferred and applied by        *)
(* apply_buffers when the pass ends.                                       *)
(***************************************************************************)
EXTENDS Integers, FiniteSets, Sequences, TLC

VARIABLES
    now,                        \* Time::seconds_since_startup, whole seconds
    ran,                        \* the systems that have run in this stage pass
    active_enemies,             \* ActiveEnemies.0
    panicked,                   \* a debug build aborted on u32 overflow
    group_seq,                  \* FormationMaker.group_seq
    current_formation,          \* FormationMaker.current_formation
    current_formation_members,  \* FormationMaker.current_formation_members
    enemies,                    \* live Enemy entities
    lasers,                     \* live Laser entities
    players,                    \* live Player entities
    player_state,               \* PlayerStatte
    explosions_to_spawn,        \* live ExplosionToSpawn entities
    commands,                   \* the deferred commands of this pass
    before                      \* the enemies as enemy_movment found them in this pass

vars == <<now, ran, active_enemies, panicked, group_seq, current_formation,
          current_formation_members, enemies, lasers, players, player_state,
          explosions_to_spawn, commands, before>>

---------------------------------------------------------------------------
(* Program constants. *)

MAX_ENEMIES == 5
MAX_FORMATION_MEMBERS == 2
PLAYER_RESPAWN_DELAY == 2
PLAYER_SPRITE_HEIGHT == 75
PLAYER_SPRITE_WIDTH == 144
FPS == 60                       \* TIME_PER_FRAME = 1 / 60
DEFAULT_SPEED == 500            \* Speed::default()
WINDOW_WIDTH == 600
WINDOW_HEIGHT == 680
\* The value a release build's u32 wraps to below zero. It stands for
\* 2^32 - 1, which is beyond TLC's integers; all the code does with
\* it is compare it with MAX_ENEMIES.
U32_MAX == (2 ^ 30 - 1) * 2 + 1

\* Sub-pixel units per pixel: DEFAULT_SPEED * PX / FPS and the player's
\* y (a quarter of the sprite height) are whole numbers of units.
PX == FPS \div 5

(* Bounds of the model. *)

MaxTime == 3                    \* the last second a frame starts at
EnemyTime == 2                  \* the same, where the enemy population is followed
MaxDt == 2                      \* the longest frame, in seconds
MaxGroups == 4                  \* formations synthesized
MaxIds == 6                     \* entity ids of one kind, live or reserved
MaxSteps == 1                   \* the player's distance from x = 0, in ticks of travel
MaxLasers == 2                  \* live lasers of one origin
MaxHits == 2                    \* overlapping pairs in one frame
MoveTurns == 5                  \* advances of a drawn formation's angle


None == [none |-> TRUE]

---------------------------------------------------------------------------
(* Fixed-point arithmetic standing for the f32 operations of the code.     *)
(* Angles are in units of 1 / ANG radian, sines and cosines in units of    *)
(* 1 / ANG.                                                                *)

ANG == 10 ^ 3
PI == 3142                      \* std::f32::consts::PI, in angle units

Abs(n) == IF n < 0 THEN -n ELSE n

Min(a, b) == IF a < b THEN a ELSE b

Max(a, b) == IF a > b THEN a ELSE b

\* Division rounding toward zero.
Div(n, d) == IF n >= 0 THEN n \div d ELSE -((-n) \div d)

\* The largest r in lo..hi with r * r <= n.
RECURSIVE SqrtBetween(_, _, _)
SqrtBetween(n, lo, hi) ==
    IF lo >= hi THEN lo
    ELSE LET mid == (lo + hi + 1) \div 2
         IN  IF mid * mid <= n THEN SqrtBetween(n, mid, hi)
             ELSE SqrtBetween(n, lo, mid - 1)

\* f32::sqrt on a non-negative integer, rounded down.
Sqrt(n) == SqrtBetween(n, 0, 2 ^ 15)

\* The sine of a in [0, PI], in units of 1 / ANG (Bhaskara's rational form).
SinHalfTurn(a) ==
    LET p == a * (PI - a)
    IN  (16 * p) \div ((5 * PI * PI - 4 * p) \div ANG)

\* f32::sin
Sin(a) ==
    LET r == a % (2 * PI)
    IN  IF r <= PI THEN SinHalfTurn(r) ELSE -SinHalfTurn(r - PI)

\* f32::cos
Cos(a) == Sin(a + PI \div 2)

\* The arctangent of n / d for 0 <= n <= d, d > 0, in angle units.
AtanOctant(n, d) ==
    LET z == (n * ANG) \div d
    IN  (z * (PI \div 4 + (273 * (ANG - z)) \div ANG)) \div ANG

\* f32::atan2(y, x)
Atan2(y, x) ==
    LET a == Abs(y)
        b == Abs(x)
        base == IF a = 0 /\ b = 0 THEN 0
                ELSE IF a <= b THEN AtanOctant(a, b)
                ELSE PI \div 2 - AtanOctant(b, a)
        turned == IF x >= 0 THEN base ELSE PI - base
    IN  IF y >= 0 THEN turned ELSE -turned

---------------------------------------------------------------------------
(* FormationMaker (enemy.rs). *)

\* What thread_rng() returns to one call of make: a coin and a point u of
\* each uniform range, in quarters of the range:
\* gen_range(lo..hi) = lo + u * (hi - lo) / 4 with 0 <= u < 4.
gen_range(lo, hi, u) == lo + (u * (hi - lo)) \div 4

\* The outcomes the game is followed under: either side, the low end of
\* every range.
RngOutcomes == [coin : BOOLEAN, y : {0}, offset_x : {0}, offset_y : {0}, radius_x : {0}]

\* A faulty variant of NewFormation: the coin's other side starts on the left.
NewFormationEitherSide(rng, group_id) ==
    LET h_span == (WINDOW_HEIGHT * PX) \div 2 - 100 * PX
        w_span == (WINDOW_WIDTH * PX) \div 4
        x == IF rng.coin THEN WINDOW_WIDTH * PX ELSE -(WINDOW_WIDTH * PX)
        y == gen_range(-h_span, h_span, rng.y)
        offset == <<gen_range(-w_span, w_span, rng.offset_x),
                    gen_range(0, h_span, rng.offset_y)>>
        radius == <<gen_range(80 * PX, 150 * PX, rng.radius_x), 100 * PX>>
        angle == Atan2(y - offset[1], x - offset[2])
    IN  [start |-> <<x, y>>, offset |-> offset, radius |-> radius,
         angle |-> angle, group_id |-> group_id]

\* The formation make() synthesizes from the rng's outcome.
NewFormation(rng, group_id) ==
    LET h_span == (WINDOW_HEIGHT * PX) \div 2 - 100 * PX
        w_span == (WINDOW_WIDTH * PX) \div 4
        x == IF rng.coin THEN WINDOW_WIDTH * PX ELSE WINDOW_HEIGHT * PX
        y == gen_range(-h_span, h_span, rng.y)
        offset == <<gen_range(-w_span, w_span, rng.offset_x),
                    gen_range(0, h_span, rng.offset_y)>>
        radius == <<gen_range(80 * PX, 150 * PX, rng.radius_x), 100 * PX>>
        angle == Atan2(y - offset[1], x - offset[2])
    IN  [start |-> <<x, y>>, offset |-> offset, radius |-> radius,
         angle |-> angle, group_id |-> group_id]

\* A faulty variant of NeedsNewFormation: the member test is off by one.
NeedsNewFormationLate ==
    current_formation = None \/ current_formation_members > MAX_FORMATION_MEMBERS

\* The match arm (None, _) | (_, true): no formation yet, or the current
\* one has its members.
NeedsNewFormation ==
    current_formation = None \/ current_formation_members >= MAX_FORMATION_MEMBERS

\* A faulty variant of NextGroupSeq: the increment is lost.
StalledGroupSeq == group_seq

\* self.group_seq += 1
NextGroupSeq == group_seq + 1

\* FormationMaker::make: the formation returned and the maker's new fields.
make(rng) ==
    IF NeedsNewFormation
    THEN LET formation == NewFormation(rng, NextGroupSeq)
         IN  [formation |-> formation,
              group_seq |-> NextGroupSeq,
              current_formation |-> formation,
              current_formation_members |-> 1]
    ELSE [formation |-> current_formation,
          group_seq |-> group_seq,
          current_formation |-> current_formation,
          current_formation_members |-> current_formation_members + 1]

---------------------------------------------------------------------------
(* The stage's schedule (App::build, main.rs, enemy.rs, player.rs).        *)
(* PerFrame systems run once in every frame. Fixed systems run under a     *)
(* FixedTimestep criterion: in a frame's first pass when their timer has   *)
(* elapsed, and again, in further passes of the same frame, while it has   *)
(* elapsed once more. The timers follow wall-clock time, which the model   *)
(* leaves to the environment.                                              *)

PerFrame == {"player_movment", "player_fire", "laser_movment",
             "enemy_laser_movment", "enemy_movment", "player_laser_hit_enemy",
             "enemy_laser_hit_player", "explosion_to_spawn"}

Fixed == {"enemy_spawn", "enemy_fire", "player_spawn"}

Systems == PerFrame \cup Fixed

\* Systems that access the same resource mutably (ActiveEnemies,
\* PlayerStatte): the engine runs them one after the other, in either order.
Conflict(s, t) ==
    {s, t} \in {{"enemy_spawn", "player_laser_hit_enemy"},
                {"player_spawn", "enemy_laser_hit_player"}}

\* All other pairs of systems change disjoint state and meet otherwise only
\* through deferred commands; the model runs them in this order. A system
\* that reads the positions another one moves (enemy_fire, the two hit
\* systems) would read them one step of travel apart in the other order.
Ord ==
    [s \in Systems |->
        CASE s = "player_movment" -> 1
          [] s = "player_fire" -> 2
          [] s = "laser_movment" -> 3
          [] s = "enemy_laser_movment" -> 4
          [] s = "enemy_movment" -> 5
          [] s = "enemy_spawn" -> 6
          [] s = "player_laser_hit_enemy" -> 7
          [] s = "enemy_fire" -> 8
          [] s = "player_spawn" -> 9
          [] s = "enemy_laser_hit_player" -> 10
          [] s = "explosion_to_spawn" -> 11]

CanRun(s) ==
    /\ ~panicked
    /\ ran[s] = "todo"
    /\ \A t \in Systems \ {s} :
          ~Conflict(s, t) =>
              /\ (Ord[t] < Ord[s] /\ t \in PerFrame) => ran[t] # "todo"
              /\ Ord[t] > Ord[s] => ran[t] # "done"

Ran(s) == ran' = [ran EXCEPT ![s] = "done"]

---------------------------------------------------------------------------
(* Entities and deferred commands. *)

NoCommands == [enemies |-> {}, lasers |-> {}, players |-> {},
               explosions |-> {}, despawn |-> {}]

Ids(set) == {e.id : e \in set}

\* An Entity is modelled by its kind and an index among the entities of
\* that kind.
Entity(kind, e) == <<kind, e.id>>

\* The ids free for a new entity of a kind, given the kind's live entities and
\* its pending spawns.
FreeIds(live, pending) == (1..MaxIds) \ (Ids(live) \cup Ids(pending))

\* Entities::reserve_entity: the i-th free id, counting from 1.
NthFree(free, i) ==
    CHOOSE id \in free : Cardinality({j \in free : j < id}) = i - 1

FreeEnemyIds == FreeIds(enemies, commands.enemies)

FreeLaserIds == FreeIds(lasers, commands.lasers)

FreePlayerIds == FreeIds(players, commands.players)

FreeExplosionIds == FreeIds(explosions_to_spawn, commands.explosions)

LasersFrom(origin) == {l \in lasers : l.from = origin}

PendingLasersFrom(origin) == {l \in commands.lasers : l.from = origin}

\* speed.0 * TIME_PER_FRAME
Travel(speed) == (speed * PX) \div FPS

---------------------------------------------------------------------------
(* The enemy systems (enemy.rs). *)

\* A faulty variant of BelowCap: the cap itself still admits a spawn.
AtOrBelowCap == active_enemies <= MAX_ENEMIES

\* A faulty variant of BelowCap: the spawns stop one enemy short of the cap.
BelowCapLessOne == active_enemies < MAX_ENEMIES - 1

\* if active_enemies.0 < MAX_ENEMIES
BelowCap == active_enemies < MAX_ENEMIES

\* The enemy entity enemy_spawn creates.
NewEnemy(id, formation) ==
    [id |-> id, x |-> formation.start[1], y |-> formation.start[2],
     speed |-> DEFAULT_SPEED, formation |-> formation]

\* A faulty variant of enemy_spawn: make() is called before the cap is
\* tested, so a skipped tick still takes a formation.
enemy_spawn_make_first ==
    /\ CanRun("enemy_spawn")
    /\ \E rng \in RngOutcomes :
          LET made == make(rng)
              enemy == NewEnemy(NthFree(FreeEnemyIds, 1), made.formation)
          IN  /\ made.group_seq <= MaxGroups
              /\ group_seq' = made.group_seq
              /\ current_formation' = made.current_formation
              /\ current_formation_members' = made.current_formation_members
              /\ IF BelowCap
                 THEN /\ FreeEnemyIds # {}
                      /\ commands' = [commands EXCEPT !.enemies = @ \cup {enemy}]
                      /\ active_enemies' = active_enemies + 1
                 ELSE UNCHANGED <<commands, active_enemies>>
    /\ Ran("enemy_spawn")
    /\ UNCHANGED <<before, now, panicked, enemies, lasers, players, player_state,
                   explosions_to_spawn>>

\* enemy_spawn, on its 1.0 s timer.
enemy_spawn ==
    /\ CanRun("enemy_spawn")
    /\ \E rng \in RngOutcomes :
          IF BelowCap
          THEN LET made == make(rng)
                   enemy == NewEnemy(NthFree(FreeEnemyIds, 1), made.formation)
               IN  /\ FreeEnemyIds # {}
                   /\ made.group_seq <= MaxGroups
                   /\ group_seq' = made.group_seq
                   /\ current_formation' = made.current_formation
                   /\ current_formation_members' = made.current_formation_members
                   /\ commands' = [commands EXCEPT !.enemies = @ \cup {enemy}]
                   /\ active_enemies' = active_enemies + 1
          ELSE UNCHANGED <<group_seq, current_formation,
                           current_formation_members, commands, active_enemies>>
    /\ Ran("enemy_spawn")
    /\ UNCHANGED <<before, now, panicked, enemies, lasers, players, player_state,
                   explosions_to_spawn>>

\* A faulty variant of EnemyLaser: the laser starts above the enemy.
EnemyLaserAbove(enemy, rank) ==
    [id |-> NthFree(FreeLaserIds, rank), from |-> "FromEnemy", x |-> enemy.x,
     y |-> enemy.y + 15 * PX, speed |-> DEFAULT_SPEED]

\* The laser enemy_fire spawns for one enemy, given the enemy's rank.
EnemyLaser(enemy, rank) ==
    [id |-> NthFree(FreeLaserIds, rank), from |-> "FromEnemy", x |-> enemy.x,
     y |-> enemy.y - 15 * PX, speed |-> DEFAULT_SPEED]

\* enemy_fire, on its 0.9 s timer.
enemy_fire ==
    /\ CanRun("enemy_fire")
    /\ Cardinality(FreeLaserIds) >= Cardinality(enemies)
    /\ Cardinality(LasersFrom("FromEnemy")) + Cardinality(PendingLasersFrom("FromEnemy"))
          + Cardinality(enemies) <= MaxLasers
    /\ LET rank(e) == Cardinality({f \in enemies : f.id <= e.id})
       IN  commands' = [commands EXCEPT
               !.lasers = @ \cup {EnemyLaser(e, rank(e)) : e \in enemies}]
    /\ Ran("enemy_fire")
    /\ UNCHANGED <<before, now, active_enemies, panicked, group_seq, current_formation,
                   current_formation_members, enemies, lasers, players,
                   player_state, explosions_to_spawn>>

\* max_distance = TIME_PER_FRAME * speed.0
MaxDistance(e) == Travel(e.speed)

\* dir = if formation.start.0 > 0. { 1. } else { -1. }
Dir(formation) == IF formation.start[1] > 0 THEN 1 ELSE -1

\* The angle enemy_movment aims at: formation.angle
\*   + dir * speed.0 * TIME_PER_FRAME / (x_radius.min(y_radius) * PI / 2.)
NextAngle(e) ==
    e.formation.angle
      + Dir(e.formation)
          * Div(Travel(e.speed) * 2 * ANG * ANG,
                Min(e.formation.radius[1], e.formation.radius[2]) * PI)

\* The destination (x_dst, y_dst) on the ellipse.
Destination(e) ==
    LET angle == NextAngle(e)
    IN  <<Div(e.formation.radius[1] * Cos(angle), ANG) + e.formation.offset[1],
          Div(e.formation.radius[2] * Sin(angle), ANG) + e.formation.offset[2]>>

\* (delta_x, delta_y)
Delta(e) == <<e.x - Destination(e)[1], e.y - Destination(e)[2]>>

\* distance = (delta_x * delta_x + delta_y * delta_y).sqrt()
Distance(e) == Sqrt(Delta(e)[1] * Delta(e)[1] + Delta(e)[2] * Delta(e)[2])

\* A faulty variant of DistanceRatio: at distance 0 the ratio is 1.
DistanceRatioOneAtZero(e) ==
    IF Distance(e) = 0 THEN <<1, 1>> ELSE <<MaxDistance(e), Distance(e)>>

\* distance_ratio, as a fraction <<numerator, denominator>>.
DistanceRatio(e) ==
    IF Distance(e) = 0 THEN <<0, 1>> ELSE <<MaxDistance(e), Distance(e)>>

\* A faulty variant of AngleCommitted: the threshold itself commits.
AngleCommittedAtThreshold(e) == Distance(e) <= Div(MaxDistance(e) * e.speed, 20)

\* if distance < max_distance * speed.0 / 20.
AngleCommitted(e) == Distance(e) < Div(MaxDistance(e) * e.speed, 20)

\* A faulty variant of Stepped: the coordinate is not held at the
\* destination's.
SteppedUnclamped(e, axis) ==
    LET org == IF axis = 1 THEN e.x ELSE e.y
    IN  org - Div(Delta(e)[axis] * DistanceRatio(e)[1], DistanceRatio(e)[2])

\* tf.translation.x (axis 1) or .y (axis 2) after the step: the coordinate
\* moved by delta * distance_ratio and held at the destination's.
Stepped(e, axis) ==
    LET org == IF axis = 1 THEN e.x ELSE e.y
        delta == Delta(e)[axis]
        dst == Destination(e)[axis]
        moved == org - Div(delta * DistanceRatio(e)[1], DistanceRatio(e)[2])
    IN  IF delta > 0 THEN Max(moved, dst) ELSE Min(moved, dst)

\* The body of enemy_movment's loop for one enemy.
MovedEnemy(e) ==
    [e EXCEPT !.x = Stepped(e, 1),
              !.y = Stepped(e, 2),
              !.formation.angle = IF AngleCommitted(e) THEN NextAngle(e) ELSE @]

\* A faulty variant of enemy_movment: the generator's template is the
\* Formation the enemies hold, so an angle an enemy of the current formation
\* commits shows in the template.
enemy_movment_shared ==
    /\ CanRun("enemy_movment")
    /\ enemies' = {MovedEnemy(e) : e \in enemies}
    /\ before' = enemies
    /\ LET holders == {e \in enemies : /\ current_formation # None
                                       /\ e.formation.group_id = current_formation.group_id
                                       /\ AngleCommitted(e)}
       IN  current_formation' =
              IF holders = {} THEN current_formation
              ELSE [current_formation EXCEPT
                       !.angle = NextAngle(CHOOSE e \in holders : TRUE)]
    /\ Ran("enemy_movment")
    /\ UNCHANGED <<now, active_enemies, panicked, group_seq,
                   current_formation_members, lasers, players, player_state,
                   explosions_to_spawn, commands>>

\* enemy_movment, every frame.
enemy_movment ==
    /\ CanRun("enemy_movment")
    /\ enemies' = {MovedEnemy(e) : e \in enemies}
    /\ before' = enemies
    /\ Ran("enemy_movment")
    /\ UNCHANGED <<now, active_enemies, panicked, group_seq, current_formation,
                   current_formation_members, lasers, players, player_state,
                   explosions_to_spawn, commands>>

\* A faulty variant of MovedEnemyLaser: the laser rises.
MovedEnemyLaserUp(l) == [l EXCEPT !.y = @ + Travel(l.speed)]

\* One laser after enemy_laser_movment's step.
MovedEnemyLaser(l) == [l EXCEPT !.y = @ - Travel(l.speed)]

\* Whether enemy_laser_movment despawns a laser it has moved.
EnemyLaserOffScreenAtBound(l) == l.y <= -((WINDOW_HEIGHT * PX) \div 2) - 50 * PX

\* if tf.translation.y < -window_size.height / 2. - 50.
EnemyLaserOffScreen(l) == l.y < -((WINDOW_HEIGHT * PX) \div 2) - 50 * PX

\* enemy_laser_movment, every frame.
enemy_laser_movment ==
    /\ CanRun("enemy_laser_movment")
    /\ LET moved == [l \in LasersFrom("FromEnemy") |-> MovedEnemyLaser(l)]
       IN  /\ lasers' = (lasers \ LasersFrom("FromEnemy"))
                          \cup {moved[l] : l \in LasersFrom("FromEnemy")}
           /\ commands' = [commands EXCEPT
                  !.despawn = @ \cup {Entity("laser", moved[l]) : l \in
                      {k \in LasersFrom("FromEnemy") : EnemyLaserOffScreen(moved[k])}}]
    /\ Ran("enemy_laser_movment")
    /\ UNCHANGED <<before, now, active_enemies, panicked, group_seq, current_formation,
                   current_formation_members, enemies, players, player_state,
                   explosions_to_spawn>>

---------------------------------------------------------------------------
(* The player systems (player.rs). *)

\* PlayerStatte::shot
shot(state, time) == [state EXCEPT !.on = FALSE, !.last_shot = time]

\* PlayerStatte::spawned
spawned(state) == [state EXCEPT !.on = TRUE, !.last_shot = 0]

\* A faulty variant of ShouldSpawnPlayer: the state's flag is not tested.
ShouldSpawnPlayerUnlessWaiting ==
    \/ player_state.last_shot = 0
    \/ now > player_state.last_shot + PLAYER_RESPAWN_DELAY

\* A faulty variant of ShouldSpawnPlayer: the delay's last instant counts.
ShouldSpawnPlayerAtDelay ==
    /\ ~player_state.on
    /\ \/ player_state.last_shot = 0
       \/ now >= player_state.last_shot + PLAYER_RESPAWN_DELAY

\* The condition under which player_spawn spawns a player.
ShouldSpawnPlayer ==
    /\ ~player_state.on
    /\ \/ player_state.last_shot = 0
       \/ now > player_state.last_shot + PLAYER_RESPAWN_DELAY

\* The player entity player_spawn creates.
NewPlayer(id) ==
    LET window_bottom_point == -((WINDOW_HEIGHT * PX) \div 2)
        padding == 5 * PX
    IN  [id |-> id, x |-> 0,
         y |-> window_bottom_point + (PLAYER_SPRITE_HEIGHT * PX) \div 4 + padding,
         speed |-> DEFAULT_SPEED, ready_fire |-> TRUE]

\* player_spawn, in the startup stage and then on its 0.5 s timer.
player_spawn ==
    /\ CanRun("player_spawn")
    /\ IF ShouldSpawnPlayer
       THEN LET player == NewPlayer(NthFree(FreePlayerIds, 1))
            IN  /\ FreePlayerIds # {}
                /\ commands' = [commands EXCEPT !.players = @ \cup {player}]
                /\ player_state' = spawned(player_state)
       ELSE UNCHANGED <<commands, player_state>>
    /\ Ran("player_spawn")
    /\ UNCHANGED <<before, now, active_enemies, panicked, group_seq, current_formation,
                   current_formation_members, enemies, lasers, players,
                   explosions_to_spawn>>

\* The player after player_movment, for the key held (dir: -1, 0 or 1).
MovedPlayer(p, dir) ==
    LET movement == dir * Travel(p.speed)
        limit == (WINDOW_WIDTH * PX) \div 2 - (PLAYER_SPRITE_WIDTH * PX) \div 4
        reach_limit == p.x + movement > limit \/ p.x + movement < -limit
    IN  IF reach_limit = FALSE THEN [p EXCEPT !.x = @ + movement] ELSE p

\* player_movment, every frame: a no-op unless query.single_mut() is Ok.
player_movment ==
    /\ CanRun("player_movment")
    /\ \E dir \in {-1, 0, 1} :
          IF Cardinality(players) = 1
          THEN /\ \A p \in players : Abs(MovedPlayer(p, dir).x) <= MaxSteps * Travel(p.speed)
               /\ players' = {MovedPlayer(p, dir) : p \in players}
          ELSE UNCHANGED players
    /\ Ran("player_movment")
    /\ UNCHANGED <<before, now, active_enemies, panicked, group_seq, current_formation,
                   current_formation_members, enemies, lasers, player_state,
                   explosions_to_spawn, commands>>

\* The two lasers player_fire spawns.
PlayerLasers(p) ==
    LET x_offset == (PLAYER_SPRITE_WIDTH * PX) \div 4 - 5 * PX
    IN  {[id |-> NthFree(FreeLaserIds, 1), from |-> "FromPlayer", x |-> p.x + x_offset,
          y |-> p.y + 15 * PX, speed |-> DEFAULT_SPEED],
         [id |-> NthFree(FreeLaserIds, 2), from |-> "FromPlayer", x |-> p.x - x_offset,
          y |-> p.y + 15 * PX, speed |-> DEFAULT_SPEED]}

\* player_fire, every frame: a no-op unless query.single_mut() is Ok.
player_fire ==
    /\ CanRun("player_fire")
    /\ \E pressed \in BOOLEAN, just_released \in BOOLEAN :
          IF Cardinality(players) = 1
          THEN LET p == CHOOSE q \in players : TRUE
                   fires == p.ready_fire /\ pressed
               IN  /\ fires =>
                          /\ Cardinality(FreeLaserIds) >= 2
                          /\ Cardinality(LasersFrom("FromPlayer"))
                               + Cardinality(PendingLasersFrom("FromPlayer")) + 2
                                  <= MaxLasers
                   /\ commands' = IF fires
                                  THEN [commands EXCEPT !.lasers = @ \cup PlayerLasers(p)]
                                  ELSE commands
                   /\ players' = {[p EXCEPT !.ready_fire =
                                      IF just_released THEN TRUE
                                      ELSE IF fires THEN FALSE ELSE @]}
          ELSE UNCHANGED <<commands, players>>
    /\ Ran("player_fire")
    /\ UNCHANGED <<before, now, active_enemies, panicked, group_seq, current_formation,
                   current_formation_members, enemies, lasers, player_state,
                   explosions_to_spawn>>

\* One laser after laser_movment's step.
MovedPlayerLaser(l) == [l EXCEPT !.y = @ + Travel(l.speed)]

\* Whether laser_movment despawns a laser it has moved.
PlayerLaserOffScreen(l) == l.y > WINDOW_HEIGHT * PX

\* laser_movment, every frame.
laser_movment ==
    /\ CanRun("laser_movment")
    /\ LET moved == [l \in LasersFrom("FromPlayer") |-> MovedPlayerLaser(l)]
       IN  /\ lasers' = (lasers \ LasersFrom("FromPlayer"))
                          \cup {moved[l] : l \in LasersFrom("FromPlayer")}
           /\ commands' = [commands EXCEPT
                  !.despawn = @ \cup {Entity("laser", moved[l]) : l \in
                      {k \in LasersFrom("FromPlayer") : PlayerLaserOffScreen(moved[k])}}]
    /\ Ran("laser_movment")
    /\ UNCHANGED <<before, now, active_enemies, panicked, group_seq, current_formation,
                   current_formation_members, enemies, players, player_state,
                   explosions_to_spawn>>

---------------------------------------------------------------------------
(* The collision systems (main.rs). Which sprites overlap (collide) rests  *)
(* on sprite sizes read from image files; the model leaves the overlaps of *)
(* a frame to the environment, at most MaxHits of them.                    *)

\* active_enemies.0 -= 1: below zero a release build wraps.
Decrement(n) == IF n = 0 THEN U32_MAX ELSE n - 1

\* enemies_blasted.get(&enemy_entity).is_none()
AlwaysNotYetBlasted(enemies_blasted, enemy_entity) == TRUE

\* if enemies_blasted.get(&enemy_entity).is_none()
NotYetBlasted(enemies_blasted, enemy_entity) == enemy_entity \notin enemies_blasted

\* A faulty variant of HitEnemy: the explosion is spawned for every
\* colliding laser, outside the test of enemies_blasted.
HitEnemyExplodesEach(acc, pair) ==
    LET laser == pair[1]
        enemy == pair[2]
        explosion == [id |-> NthFree(FreeExplosionIds, Cardinality(acc.explosions) + 1),
                      x |-> enemy.x, y |-> enemy.y]
    IN  IF NotYetBlasted(acc.enemies_blasted, Entity("enemy", enemy))
        THEN [active_enemies |-> Decrement(acc.active_enemies),
              underflow |-> acc.underflow \/ acc.active_enemies = 0,
              enemies_blasted |-> acc.enemies_blasted \cup {Entity("enemy", enemy)},
              despawn |-> acc.despawn
                            \cup {Entity("enemy", enemy), Entity("laser", laser)},
              explosions |-> acc.explosions \cup {explosion}]
        ELSE [acc EXCEPT !.despawn = @ \cup {Entity("laser", laser)},
                         !.explosions = @ \cup {explosion}]


\* The body of player_laser_hit_enemy's loops for one colliding pair
\* <<laser, enemy>>.
HitEnemy(acc, pair) ==
    LET laser == pair[1]
        enemy == pair[2]
        explosion == [id |-> NthFree(FreeExplosionIds, Cardinality(acc.explosions) + 1),
                      x |-> enemy.x, y |-> enemy.y]
    IN  IF NotYetBlasted(acc.enemies_blasted, Entity("enemy", enemy))
        THEN [active_enemies |-> Decrement(acc.active_enemies),
              underflow |-> acc.underflow \/ acc.active_enemies = 0,
              enemies_blasted |-> acc.enemies_blasted \cup {Entity("enemy", enemy)},
              despawn |-> acc.despawn
                            \cup {Entity("enemy", enemy), Entity("laser", laser)},
              explosions |-> acc.explosions \cup {explosion}]
        ELSE [acc EXCEPT !.despawn = @ \cup {Entity("laser", laser)}]

\* player_laser_hit_enemy's loops over the colliding pairs.
RECURSIVE HitEnemies(_, _)
HitEnemies(pairs, acc) ==
    IF pairs = {} THEN acc
    ELSE LET pair == CHOOSE q \in pairs : TRUE
         IN  HitEnemies(pairs \ {pair}, HitEnemy(acc, pair))

\* A faulty variant of player_laser_hit_enemy: laser_query lacks the
\* With<FromPlayer> filter, so a laser of either side destroys an enemy.
player_laser_hit_enemy_any_laser ==
    /\ CanRun("player_laser_hit_enemy")
    /\ \E hits \in SUBSET (lasers \X enemies) :
          /\ Cardinality(hits) <= MaxHits
          /\ Cardinality(hits) <= Cardinality(FreeExplosionIds)
          /\ LET done == HitEnemies(hits,
                            [active_enemies |-> active_enemies, underflow |-> FALSE,
                             enemies_blasted |-> {}, despawn |-> {},
                             explosions |-> {}])
             IN  /\ active_enemies' = done.active_enemies
                 /\ panicked' \in (IF done.underflow THEN BOOLEAN ELSE {FALSE})
                 /\ commands' = [commands EXCEPT
                        !.despawn = @ \cup done.despawn,
                        !.explosions = @ \cup done.explosions]
    /\ Ran("player_laser_hit_enemy")
    /\ UNCHANGED <<before, now, group_seq, current_formation, current_formation_members,
                   enemies, lasers, players, player_state, explosions_to_spawn>>

\* player_laser_hit_enemy, every frame.
player_laser_hit_enemy ==
    /\ CanRun("player_laser_hit_enemy")
    /\ \E hits \in SUBSET (LasersFrom("FromPlayer") \X enemies) :
          /\ Cardinality(hits) <= MaxHits
          /\ Cardinality(hits) <= Cardinality(FreeExplosionIds)
          /\ LET done == HitEnemies(hits,
                            [active_enemies |-> active_enemies, underflow |-> FALSE,
                             enemies_blasted |-> {}, despawn |-> {},
                             explosions |-> {}])
             IN  /\ active_enemies' = done.active_enemies
                 /\ panicked' \in (IF done.underflow THEN BOOLEAN ELSE {FALSE})
                 /\ commands' = [commands EXCEPT
                        !.despawn = @ \cup done.despawn,
                        !.explosions = @ \cup done.explosions]
    /\ Ran("player_laser_hit_enemy")
    /\ UNCHANGED <<before, now, group_seq, current_formation, current_formation_members,
                   enemies, lasers, players, player_state, explosions_to_spawn>>

\* The body of enemy_laser_hit_player's loop for one colliding laser.
HitPlayer(acc, player, laser) ==
    [player_state |-> shot(acc.player_state, now),
     despawn |-> acc.despawn \cup {Entity("player", player), Entity("laser", laser)},
     explosions |-> acc.explosions \cup
         {[id |-> NthFree(FreeExplosionIds, Cardinality(acc.explosions) + 1),
           x |-> player.x, y |-> player.y]}]

\* enemy_laser_hit_player's loop over the colliding lasers.
RECURSIVE HitPlayerLoop(_, _, _)
HitPlayerLoop(hits, player, acc) ==
    IF hits = {} THEN acc
    ELSE LET laser == CHOOSE q \in hits : TRUE
         IN  HitPlayerLoop(hits \ {laser}, player, HitPlayer(acc, player, laser))

\* A faulty variant of WithoutPlayer: the shot is recorded outside the if.
WithoutPlayerShot == player_state' = shot(player_state, now) /\ UNCHANGED commands

\* What enemy_laser_hit_player does when player_query.single() is not Ok.
WithoutPlayer == UNCHANGED <<player_state, commands>>

\* enemy_laser_hit_player, every frame: a no-op unless player_query.single()
\* is Ok.
enemy_laser_hit_player ==
    /\ CanRun("enemy_laser_hit_player")
    /\ IF Cardinality(players) = 1
       THEN \E hits \in SUBSET LasersFrom("FromEnemy") :
               /\ Cardinality(hits) <= MaxHits
               /\ Cardinality(hits) <= Cardinality(FreeExplosionIds)
               /\ LET player == CHOOSE q \in players : TRUE
                      done == HitPlayerLoop(hits, player,
                                  [player_state |-> player_state, despawn |-> {},
                                   explosions |-> {}])
                  IN  /\ player_state' = done.player_state
                      /\ commands' = [commands EXCEPT
                             !.despawn = @ \cup done.despawn,
                             !.explosions = @ \cup done.explosions]
       ELSE WithoutPlayer
    /\ Ran("enemy_laser_hit_player")
    /\ UNCHANGED <<before, now, active_enemies, panicked, group_seq, current_formation,
                   current_formation_members, enemies, lasers, players,
                   explosions_to_spawn>>

\* explosion_to_spawn, every frame: each ExplosionToSpawn becomes an
\* explosion sprite (which the model does not follow) and is despawned.
explosion_to_spawn ==
    /\ CanRun("explosion_to_spawn")
    /\ commands' = [commands EXCEPT
           !.despawn = @ \cup {Entity("explosion", e) : e \in explosions_to_spawn}]
    /\ Ran("explosion_to_spawn")
    /\ UNCHANGED <<before, now, active_enemies, panicked, group_seq, current_formation,
                   current_formation_members, enemies, lasers, players,
                   player_state, explosions_to_spawn>>

---------------------------------------------------------------------------
(* The engine: the end of a stage pass. *)

Kept(kind, set) == {e \in set : Entity(kind, e) \notin commands.despawn}

\* The schedule of the pass after this one: a new frame, or a further pass
\* of this frame for the Fixed systems that have just run.
NextPass(again) ==
    [s \in Systems |->
        IF ~again THEN "todo"
        ELSE IF s \in Fixed /\ ran[s] = "done" THEN "todo" ELSE "off"]

\* The stage applies the commands its systems issued, and the next pass
\* starts, dt seconds later when it is a new frame's.
apply_buffers(max_time) ==
    /\ ~panicked
    /\ \A s \in PerFrame : ran[s] # "todo"
    /\ now = 0 => ran["player_spawn"] = "done"
    /\ enemies' = Kept("enemy", enemies) \cup commands.enemies
    /\ lasers' = Kept("laser", lasers) \cup commands.lasers
    /\ players' = Kept("player", players) \cup commands.players
    /\ explosions_to_spawn' =
           Kept("explosion", explosions_to_spawn) \cup commands.explosions
    /\ commands' = NoCommands
    /\ before' = {}
    /\ \E dt \in 0..MaxDt :
          /\ now + dt <= max_time
          /\ dt = 0 => now > 0 /\ \E s \in Fixed : ran[s] = "done"
          /\ now' = now + dt
          /\ ran' = NextPass(dt = 0)
    /\ UNCHANGED <<active_enemies, panicked, group_seq,
                   current_formation, current_formation_members, player_state>>

---------------------------------------------------------------------------
(* The game: App::build() and the stage's passes. *)

Init ==
    /\ now = 0
    /\ ran = [s \in Systems |-> IF s = "player_spawn" THEN "todo" ELSE "off"]
    /\ active_enemies = 0
    /\ panicked = FALSE
    /\ group_seq = 0
    /\ current_formation = None
    /\ current_formation_members = 0
    /\ enemies = {}
    /\ lasers = {}
    /\ players = {}
    /\ player_state = [on |-> FALSE, last_shot |-> 0]
    /\ explosions_to_spawn = {}
    /\ commands = NoCommands
    /\ before = {}

Next ==
    \/ enemy_spawn
    \/ enemy_fire
    \/ enemy_movment
    \/ enemy_laser_movment
    \/ player_spawn
    \/ player_movment
    \/ player_fire
    \/ laser_movment
    \/ player_laser_hit_enemy
    \/ enemy_laser_hit_player
    \/ explosion_to_spawn
    \/ apply_buffers(MaxTime)

Spec == Init /\ [][Next]_vars

---------------------------------------------------------------------------
(* The enemy population: the game in an environment where the arrow keys   *)
(* stay up, the 0.9 s fire timer does not elapse, so that no enemy laser   *)
(* exists and the player lives, and the generator's coin (rng.gen::<bool>) *)
(* falls on the window's width. Every system still runs each frame.        *)

NextEnemies ==
    \/ enemy_spawn /\ \A e \in commands'.enemies : e.x = WINDOW_WIDTH * PX
    \/ enemy_movment
    \/ enemy_laser_movment
    \/ player_spawn
    \/ player_movment /\ UNCHANGED players
    \/ player_fire
    \/ laser_movment
    \/ player_laser_hit_enemy
    \/ enemy_laser_hit_player
    \/ explosion_to_spawn
    \/ apply_buffers(EnemyTime)

SpecEnemies == Init /\ [][NextEnemies]_vars

---------------------------------------------------------------------------
(* The player: the game in an environment where the player's lasers miss   *)
(* every enemy, the 1.0 s spawn timer elapses only until as many enemies   *)
(* exist as may fire together, and the generator's coin falls on the       *)
(* window's width.                                                         *)

NextPlayer ==
    \/ /\ enemy_spawn
       /\ active_enemies' <= MaxLasers
       /\ \A e \in commands'.enemies : e.x = WINDOW_WIDTH * PX
    \/ enemy_fire
    \/ enemy_movment
    \/ enemy_laser_movment
    \/ player_spawn
    \/ player_movment
    \/ player_fire
    \/ laser_movment
    \/ player_laser_hit_enemy /\ UNCHANGED commands
    \/ enemy_laser_hit_player
    \/ explosion_to_spawn
    \/ apply_buffers(MaxTime)

SpecPlayer == Init /\ [][NextPlayer]_vars

---------------------------------------------------------------------------
(* One enemy in flight: frames of a game in which one enemy has been       *)
(* spawned and has flown for a while, no timer elapses and no key is down. *)
(* The first frame finds the enemy at a drawn place: its formation is one  *)
(* make() synthesizes, along the whole of each random range, with the      *)
(* angle as synthesized or advanced MoveTurns times, and the enemy is at a *)
(* drawn distance from the destination of its next tick, in a direction    *)
(* whose distance is a whole number (a Pythagorean triple), so that the    *)
(* square root of the tick is exact.                                       *)

MoveRngOutcomes ==
    [coin : BOOLEAN, y : {0, 3}, offset_x : {0, 3}, offset_y : {0, 3}, radius_x : {0, 3}]

\* <<a, b, c>> with a^2 + b^2 = c^2
MoveDirections ==
    {<<1, 0, 1>>, <<0, 1, 1>>, <<3, 4, 5>>, <<4, 3, 5>>, <<7, 24, 25>>, <<24, 7, 25>>}

\* Distances to the destination, in units: none, less than one tick of
\* travel, a tick, more, and about the threshold of the angle's advance.
MoveDistances == {0, 50, 100, 150, 2475, 2500, 2525}

\* The game when the enemy with this formation is at the offset from its
\* next destination.
EnemyInFlight(made, formation, offset) ==
    LET probe == NewEnemy(1, formation)
        dst == Destination(probe)
    IN  /\ enemies = {[probe EXCEPT !.x = dst[1] + offset[1], !.y = dst[2] + offset[2]]}
        /\ group_seq = 1
        /\ current_formation = made
        /\ current_formation_members = 1
        /\ active_enemies = 1

InitMove ==
    /\ now = 1
    /\ ran = [s \in Systems |-> "todo"]
    /\ panicked = FALSE
    /\ lasers = {}
    /\ players = {NewPlayer(1)}
    /\ player_state = spawned([on |-> FALSE, last_shot |-> 0])
    /\ explosions_to_spawn = {}
    /\ commands = NoCommands
    /\ before = {}
    /\ \E rng \in MoveRngOutcomes, turns \in {0, MoveTurns}, dir \in MoveDirections,
          sx \in {-1, 1}, sy \in {-1, 1}, distance \in MoveDistances :
          LET made == NewFormation(rng, 1)
              turn == NextAngle(NewEnemy(1, made)) - made.angle
              formation == [made EXCEPT !.angle = @ + turns * turn]
          IN  EnemyInFlight(made, formation,
                            <<sx * dir[1] * (distance \div dir[3]),
                              sy * dir[2] * (distance \div dir[3])>>)

NextMove ==
    \/ enemy_movment
    \/ enemy_laser_movment
    \/ player_movment /\ UNCHANGED players
    \/ player_fire /\ UNCHANGED <<players, commands>>
    \/ laser_movment
    \/ player_laser_hit_enemy
    \/ enemy_laser_hit_player
    \/ explosion_to_spawn
    \/ apply_buffers(MaxTime)

SpecMove == InitMove /\ [][NextMove]_vars

---------------------------------------------------------------------------
(* Enemy lasers on their way out: frames of a game whose only enemy has    *)
(* fired and has been destroyed, where no timer elapses and no key is      *)
(* down. The first frame finds up to two enemy lasers within a few ticks   *)
(* of travel above the line below which enemy_laser_movment despawns.      *)

\* -window_size.height / 2. - 50., in units
LaserBound == -((WINDOW_HEIGHT * PX) \div 2) - 50 * PX

\* Heights above LaserBound: a tick of travel and a unit less or more, and
\* further up.
LaserHeights == {99, 100, 101, 150, 200, 201}

InitLaser ==
    /\ now = 1
    /\ ran = [s \in Systems |-> "todo"]
    /\ panicked = FALSE
    /\ active_enemies = 0
    /\ group_seq = 1
    /\ \E rng \in RngOutcomes : current_formation = NewFormation(rng, 1)
    /\ current_formation_members = 1
    /\ enemies = {}
    /\ players = {NewPlayer(1)}
    /\ player_state = spawned([on |-> FALSE, last_shot |-> 0])
    /\ explosions_to_spawn = {}
    /\ commands = NoCommands
    /\ before = {}
    /\ \E heights \in SUBSET LaserHeights :
          /\ Cardinality(heights) <= MaxLasers
          /\ lasers = {[id |-> Cardinality({g \in heights : g <= h}),
                        from |-> "FromEnemy",
                        x |-> current_formation.start[1],
                        y |-> LaserBound + h,
                        speed |-> DEFAULT_SPEED] : h \in heights}

NextLaser ==
    \/ enemy_movment
    \/ enemy_laser_movment
    \/ player_movment
    \/ player_fire /\ UNCHANGED commands
    \/ laser_movment
    \/ player_laser_hit_enemy
    \/ enemy_laser_hit_player
    \/ explosion_to_spawn
    \/ apply_buffers(MaxTime)

SpecLaser == InitLaser /\ [][NextLaser]_vars

---------------------------------------------------------------------------
(* A formation that gains a member: frames of a game in which the first    *)
(* enemy of a formation is in flight, about to land on its destination or  *)
(* about the threshold of the angle's advance, when the 1.0 s spawn timer  *)
(* elapses, until the formation is full and the next one has a member. No  *)
(* other timer elapses and no key is down.                                 *)

PairDirections == {<<1, 0, 1>>, <<3, 4, 5>>}

PairDistances == {50, 2475, 2500}

InitPair ==
    /\ now = 1
    /\ ran = [s \in Systems |-> "todo"]
    /\ panicked = FALSE
    /\ lasers = {}
    /\ players = {NewPlayer(1)}
    /\ player_state = spawned([on |-> FALSE, last_shot |-> 0])
    /\ explosions_to_spawn = {}
    /\ commands = NoCommands
    /\ before = {}
    /\ \E rng \in RngOutcomes, turns \in {0, MoveTurns}, dir \in PairDirections,
          distance \in PairDistances :
          LET made == NewFormation(rng, 1)
              turn == NextAngle(NewEnemy(1, made)) - made.angle
              formation == [made EXCEPT !.angle = @ + turns * turn]
          IN  EnemyInFlight(made, formation,
                            <<dir[1] * (distance \div dir[3]),
                              dir[2] * (distance \div dir[3])>>)

NextPair ==
    \/ enemy_spawn /\ active_enemies' <= MAX_FORMATION_MEMBERS + 1
    \/ enemy_movment
    \/ enemy_laser_movment
    \/ player_movment /\ UNCHANGED players
    \/ player_fire /\ UNCHANGED <<players, commands>>
    \/ laser_movment
    \/ player_laser_hit_enemy
    \/ enemy_laser_hit_player
    \/ explosion_to_spawn
    \/ apply_buffers(MaxTime)

SpecPair == InitPair /\ [][NextPair]_vars

---------------------------------------------------------------------------
(* Both sides firing: the game in an environment where the arrow keys stay *)
(* up, the 1.0 s spawn timer elapses only until as many enemies exist as   *)
(* may fire together, and the generator's coin falls on the window's       *)
(* width. Lasers of either side may hit.                                   *)

NextBattle ==
    \/ /\ enemy_spawn
       /\ active_enemies' <= MaxLasers
       /\ \A e \in commands'.enemies : e.x = WINDOW_WIDTH * PX
    \/ enemy_fire
    \/ enemy_movment
    \/ enemy_laser_movment
    \/ player_spawn
    \/ player_movment /\ UNCHANGED players
    \/ player_fire
    \/ laser_movment
    \/ player_laser_hit_enemy
    \/ enemy_laser_hit_player
    \/ explosion_to_spawn
    \/ apply_buffers(EnemyTime)

SpecBattle == Init /\ [][NextBattle]_vars

---------------------------------------------------------------------------
(* Enemy lasers until they are gone: the frames of SpecLaser that start    *)
(* with an enemy laser in flight, followed for as long as the highest of   *)
(* the lasers needs to leave when every frame is the longest one. The      *)
(* engine runs every system of a frame and then the next frame: no step    *)
(* that can be taken is put off for ever.                                  *)

InitLaserFair == InitLaser /\ lasers # {}

\* The frames the highest laser takes to pass the bound, and the time by
\* which that many frames have gone by.
LaserFlightFrames ==
    (CHOOSE h \in LaserHeights : \A g \in LaserHeights : g <= h)
        \div Travel(DEFAULT_SPEED) + 1
LaserFlightTime == 1 + MaxDt * LaserFlightFrames

NextLaserFair ==
    \/ enemy_movment
    \/ enemy_laser_movment
    \/ player_movment
    \/ player_fire /\ UNCHANGED commands
    \/ laser_movment
    \/ player_laser_hit_enemy
    \/ enemy_laser_hit_player
    \/ explosion_to_spawn
    \/ apply_buffers(LaserFlightTime)

SpecLaserFair == InitLaserFair /\ [][NextLaserFair]_vars /\ WF_vars(NextLaserFair)

---------------------------------------------------------------------------
(* The player shot and respawned: the game in an environment where the     *)
(* keys stay up, the player's lasers miss, the 1.0 s spawn timer elapses   *)
(* only until one enemy exists and the generator's coin falls on the       *)
(* window's width, followed long enough for the player to be shot, to wait *)
(* out the respawn delay and to be shot again.                             *)

RespawnTime == MaxTime + PLAYER_RESPAWN_DELAY + 1

NextRespawn ==
    \/ /\ enemy_spawn
       /\ active_enemies' <= 1
       /\ \A e \in commands'.enemies : e.x = WINDOW_WIDTH * PX
    \/ enemy_fire
    \/ enemy_movment
    \/ enemy_laser_movment
    \/ player_spawn
    \/ player_movment /\ UNCHANGED players
    \/ player_fire /\ UNCHANGED <<players, commands>>
    \/ laser_movment
    \/ player_laser_hit_enemy /\ UNCHANGED commands
    \/ enemy_laser_hit_player
    \/ explosion_to_spawn
    \/ apply_buffers(RespawnTime)

SpecRespawn == Init /\ [][NextRespawn]_vars

---------------------------------------------------------------------------
(* Properties of the enemy population (SpecEnemies).                       *)

\* The steps in which enemy_spawn and player_laser_hit_enemy run.
SpawnStep == ran["enemy_spawn"] = "todo" /\ ran'["enemy_spawn"] = "done"

HitStep ==
    ran["player_laser_hit_enemy"] = "todo" /\ ran'["player_laser_hit_enemy"] = "done"

\* The enemies in the world together with those whose spawn is queued.
EnemiesWithPending == enemies \cup commands.enemies

\* C1: the number of live enemies never exceeds MAX_ENEMIES, whatever the
\* interleaving of spawn ticks and destructions, and an enemy_spawn tick
\* that runs while the population count is at the cap creates no enemy.
PopulationCap ==
    /\ [](Cardinality(enemies) <= MAX_ENEMIES)
    /\ [](Cardinality(EnemiesWithPending) <= MAX_ENEMIES + Cardinality(
              {e \in enemies : Entity("enemy", e) \in commands.despawn}))
    /\ [][SpawnStep /\ active_enemies >= MAX_ENEMIES
            => commands'.enemies = commands.enemies]_vars

\* C1 happens: five enemies live, nothing queued, and enemy_spawn has run.
PopulationCapReached ==
    /\ ran["enemy_spawn"] = "done"
    /\ active_enemies = MAX_ENEMIES
    /\ Cardinality(enemies) = MAX_ENEMIES
    /\ commands.enemies = {}

\* The enemies, live or queued, that were given the formation group_id.
MembersOf(group_id) == {e \in EnemiesWithPending : e.formation.group_id = group_id}

\* C2: a formation is handed to at most MAX_FORMATION_MEMBERS make() calls:
\* no group_id is carried by more than two enemies (each make() call of
\* enemy_spawn creates one enemy), and current_formation_members never
\* exceeds MAX_FORMATION_MEMBERS.
FormationMembersBounded ==
    /\ current_formation_members <= MAX_FORMATION_MEMBERS
    /\ \A g \in 1..(MaxGroups + 1) : Cardinality(MembersOf(g)) <= MAX_FORMATION_MEMBERS
    /\ \A e \in EnemiesWithPending : e.formation.group_id \in 1..group_seq

\* C2 happens: a third make() call has followed two that shared a formation.
FormationFilledAndReplaced ==
    /\ Cardinality(MembersOf(1)) = MAX_FORMATION_MEMBERS
    /\ Cardinality(MembersOf(2)) = 1
    /\ current_formation_members = 1

\* A step in which make() is called: every call changes the member count.
MakeStep == current_formation_members' # current_formation_members

\* C3: each newly synthesized formation has the group_id of the previously
\* synthesized one plus 1, the first has group_id 1, and a call that reuses
\* the current formation leaves group_seq as it is.
GroupIdsSequential ==
    [][MakeStep =>
         \/ /\ current_formation' # current_formation
            /\ current_formation'.group_id =
                  IF current_formation = None THEN 1
                  ELSE current_formation.group_id + 1
            /\ group_seq' = current_formation'.group_id
            /\ current_formation_members' = 1
         \/ /\ current_formation' = current_formation
            /\ current_formation # None
            /\ group_seq' = group_seq
            /\ current_formation_members' = current_formation_members + 1]_vars

\* C3 happens: three formations were synthesized, with reuses in between.
ThreeGroupsMade ==
    /\ group_seq = 3
    /\ current_formation.group_id = 3
    /\ \A g \in 1..3 : MembersOf(g) # {}

\* C4: active_enemies never underflows: a run of player_laser_hit_enemy
\* decrements it once per enemy destroyed, never below zero, also when
\* several lasers overlap enemies in the same tick.
NoUnderflow ==
    /\ [](~panicked /\ active_enemies <= MAX_ENEMIES)
    /\ [][HitStep => /\ active_enemies' <= active_enemies
                     /\ active_enemies - active_enemies' =
                           Cardinality({e \in enemies :
                               Entity("enemy", e) \in commands'.despawn})
                           - Cardinality({e \in enemies :
                               Entity("enemy", e) \in commands.despawn})]_vars

\* C4 happens: two lasers have hit the only enemy in the same tick.
TwoLasersOneEnemy ==
    /\ ran["player_laser_hit_enemy"] = "done"
    /\ Cardinality(enemies) = 1
    /\ active_enemies = 0
    /\ \A e \in enemies : Entity("enemy", e) \in commands.despawn
    /\ Cardinality({l \in LasersFrom("FromPlayer") :
                       Entity("laser", l) \in commands.despawn}) = 2

\* C5: a spawn tick below the cap creates exactly one enemy and increments
\* active_enemies by exactly 1, and a spawn tick at the cap creates none:
\* from no enemies and with none destroyed, k ticks leave min(k, 5) enemies.
SpawnTicksCount ==
    [][SpawnStep =>
         IF active_enemies < MAX_ENEMIES
         THEN /\ Cardinality(commands'.enemies) = Cardinality(commands.enemies) + 1
              /\ commands.enemies \subseteq commands'.enemies
              /\ active_enemies' = active_enemies + 1
         ELSE /\ commands'.enemies = commands.enemies
              /\ active_enemies' = active_enemies]_vars

\* C5 happens: five make() calls, five enemies live, none destroyed, and a
\* sixth spawn tick has run and queued nothing.
SixthTickSpawnsNone ==
    /\ ran["enemy_spawn"] = "done"
    /\ commands.enemies = {}
    /\ group_seq = 3
    /\ current_formation_members = 1
    /\ Cardinality(enemies) = MAX_ENEMIES
    /\ active_enemies = MAX_ENEMIES

---------------------------------------------------------------------------
(* Properties of enemy_movment (SpecMove).                                 *)

\* The enemy that enemy_movment made of b in this pass.
Moved(b) == CHOOSE e \in enemies : e.id = b.id

SquaredDistance(x1, y1, x2, y2) == (x1 - x2) * (x1 - x2) + (y1 - y2) * (y1 - y2)

\* The squared distance from b to the destination of b's tick.
SquaredDistanceToGo(b) ==
    SquaredDistance(b.x, b.y, Destination(b)[1], Destination(b)[2])

\* Whether c lies between a and b.
Between(a, c, b) == (a <= c /\ c <= b) \/ (b <= c /\ c <= a)

\* speed.0 * TIME_PER_FRAME, in units
TickTravel(b) == (b.speed * PX) \div FPS

\* C6: a tick of enemy_movment leaves the enemy, on either axis, between
\* where it was and the tick's destination, so no farther from the
\* destination than before, and displaces it by at most max_distance =
\* speed * tick (to the unit where the square root of the tick is rounded).
MoveNeverOvershoots ==
    \A b \in before :
        LET e == Moved(b)
            dst == Destination(b)
            displaced == SquaredDistance(e.x, e.y, b.x, b.y)
        IN  /\ Between(b.x, e.x, dst[1])
            /\ Between(b.y, e.y, dst[2])
            /\ SquaredDistance(e.x, e.y, dst[1], dst[2]) <= SquaredDistanceToGo(b)
            /\ displaced <= (TickTravel(b) + 1) * (TickTravel(b) + 1)
            /\ Distance(b) * Distance(b) = SquaredDistanceToGo(b)
                  => displaced <= TickTravel(b) * TickTravel(b)

\* C6 happens: an enemy nearer to its destination than one tick of travel
\* has been moved, and stands on the destination.
LandedOnDestination ==
    /\ ran["enemy_movment"] = "done"
    /\ \E b \in before :
          /\ SquaredDistanceToGo(b) = 50 * 50
          /\ Moved(b).x = Destination(b)[1]
          /\ Moved(b).y = Destination(b)[2]
          /\ <<b.x, b.y>> # Destination(b)

\* C7: a tick of enemy_movment that finds the enemy at max_distance *
\* speed / 20 or more from the destination leaves formation.angle as it
\* was, and a tick that finds it nearer advances formation.angle by
\* dir * speed * tick / (min(x_radius, y_radius) * PI / 2).
AngleAdvancesNearDestination ==
    \A b \in before :
        LET threshold == (TickTravel(b) * b.speed) \div 20
            radius == IF b.formation.radius[1] < b.formation.radius[2]
                      THEN b.formation.radius[1] ELSE b.formation.radius[2]
            dir == IF b.formation.start[1] > 0 THEN 1 ELSE -1
            turn == (TickTravel(b) * 2 * ANG * ANG) \div (radius * PI)
        IN  IF SquaredDistanceToGo(b) >= threshold * threshold
            THEN Moved(b).formation.angle = b.formation.angle
            ELSE Moved(b).formation.angle = b.formation.angle + dir * turn

\* C7 happens: an enemy just inside the threshold has had its angle advanced.
AngleAdvanced ==
    /\ ran["enemy_movment"] = "done"
    /\ \E b \in before :
          /\ SquaredDistanceToGo(b) = 2475 * 2475
          /\ Moved(b).formation.angle # b.formation.angle

\* C8: a tick of enemy_movment that finds the enemy at distance 0 from the
\* destination takes 0 for distance_ratio and leaves the enemy where it is.
ZeroDistanceStays ==
    \A b \in before :
        <<b.x, b.y>> = Destination(b)
            => /\ DistanceRatio(b)[1] = 0
               /\ Moved(b).x = b.x
               /\ Moved(b).y = b.y

\* C8 happens: an enemy at its destination has been through a tick.
StayedAtDestination ==
    /\ ran["enemy_movment"] = "done"
    /\ \E b \in before :
          /\ <<b.x, b.y>> = Destination(b)
          /\ <<Moved(b).x, Moved(b).y>> = <<b.x, b.y>>

---------------------------------------------------------------------------
(* Properties of enemy_laser_movment (SpecLaser).                          *)

\* C9: an enemy laser whose y is below -height/2 - 50 is despawned by the
\* tick of enemy_laser_movment that moved it there, so it is gone before
\* the next tick, and a laser whose y after the tick's movement is at or
\* above the bound is not despawned by that tick.
EnemyLaserCulledBelowBound ==
    \A l \in LasersFrom("FromEnemy") :
        LET bound == -((WINDOW_HEIGHT * PX) \div 2) - 50 * PX
            despawned == Entity("laser", l) \in commands.despawn
        IN  /\ l.y < bound => despawned /\ ran["enemy_laser_movment"] = "done"
            /\ (/\ l.y >= bound
                /\ ran["enemy_laser_movment"] = "done"
                /\ ran["enemy_laser_hit_player"] # "done") => ~despawned

\* C9 happens: a tick has moved one laser to just below the bound and one
\* onto it.
LasersAboutTheBound ==
    /\ ran["enemy_laser_movment"] = "done"
    /\ \E l \in LasersFrom("FromEnemy") :
          /\ l.y = LaserBound - 1
          /\ Entity("laser", l) \in commands.despawn
    /\ \E l \in LasersFrom("FromEnemy") :
          /\ l.y = LaserBound
          /\ Entity("laser", l) \notin commands.despawn

---------------------------------------------------------------------------
(* Properties of the player systems (SpecPlayer).                          *)

\* A step in which system s runs.
Runs(s) == ran[s] = "todo" /\ ran'[s] = "done"

\* C10: in a tick with no live player, player_movment, player_fire and
\* enemy_laser_hit_player are no-ops: they spawn no projectile, despawn
\* nothing, change no player state, and do not fail.
NoPlayerNoEffect ==
    [][(/\ players = {}
        /\ \/ Runs("player_movment")
           \/ Runs("player_fire")
           \/ Runs("enemy_laser_hit_player"))
         => /\ commands' = commands
            /\ player_state' = player_state
            /\ players' = players
            /\ lasers' = lasers
            /\ enemies' = enemies
            /\ explosions_to_spawn' = explosions_to_spawn
            /\ active_enemies' = active_enemies
            /\ panicked' = FALSE]_vars

\* C10 happens: the three systems have run in a frame that has no player
\* and has enemy lasers in flight.
RanWithoutPlayer ==
    /\ players = {}
    /\ ~player_state.on
    /\ ran["player_movment"] = "done"
    /\ ran["player_fire"] = "done"
    /\ ran["enemy_laser_hit_player"] = "done"
    /\ LasersFrom("FromEnemy") # {}
    /\ commands.players = {}

---------------------------------------------------------------------------
(* Further properties of the enemy population (SpecEnemies).               *)

\* C11: a spawn tick skipped at the cap is not queued: it leaves
\* active_enemies and the FormationMaker (group_seq, current_formation,
\* current_formation_members) as they were and spawns nothing, and every
\* spawn tick, also after a destruction, creates at most one enemy.
SkippedTicksNotQueued ==
    /\ [][SpawnStep /\ active_enemies >= MAX_ENEMIES
            => /\ active_enemies' = active_enemies
               /\ group_seq' = group_seq
               /\ current_formation' = current_formation
               /\ current_formation_members' = current_formation_members
               /\ commands' = commands]_vars
    /\ [][SpawnStep
            => /\ Cardinality(commands'.enemies \ commands.enemies) <= 1
               /\ active_enemies' <= active_enemies + 1]_vars

\* C11 happens: in one pass a spawn tick was skipped at the cap and an
\* enemy was then destroyed, which leaves room that no spawn has filled.
SkippedThenDestroyed ==
    /\ ran["enemy_spawn"] = "done"
    /\ ran["player_laser_hit_enemy"] = "done"
    /\ commands.enemies = {}
    /\ Cardinality(enemies) = MAX_ENEMIES
    /\ active_enemies = MAX_ENEMIES - 1

---------------------------------------------------------------------------
(* Properties of the formations the enemies hold (SpecPair).               *)

\* C12: a make() call that reuses the current formation returns it equal
\* in every field to the formation that was synthesized, and the angle
\* enemy_movment commits to one enemy's Formation changes neither the
\* generator's template nor another enemy's Formation.
FormationsNotShared ==
    /\ [](current_formation # None
            => \E rng \in RngOutcomes :
                  current_formation = NewFormation(rng, group_seq))
    /\ [][MakeStep
            => /\ \A e \in commands'.enemies \ commands.enemies :
                     e.formation = current_formation'
               /\ group_seq' = group_seq => current_formation' = current_formation]_vars
    /\ [][current_formation' # current_formation => group_seq' = group_seq + 1]_vars
    /\ [][Runs("enemy_movment")
            => \A b \in enemies :
                  LET e == CHOOSE f \in enemies' : f.id = b.id
                      threshold == (TickTravel(b) * b.speed) \div 20
                  IN  /\ e.formation = [b.formation EXCEPT !.angle = e.formation.angle]
                      /\ e.formation.angle # b.formation.angle
                            => SquaredDistanceToGo(b) < threshold * threshold]_vars

\* C12 happens: of two enemies of one formation, enemy_movment has advanced
\* the angle of the first while the second holds the formation as the
\* generator keeps it.
OneOfTwoAdvanced ==
    /\ ran["enemy_movment"] = "done"
    /\ \E b \in before, e \in enemies :
          /\ e.id # b.id
          /\ e.formation.group_id = b.formation.group_id
          /\ e.formation = current_formation
          /\ Moved(b).formation.angle # b.formation.angle
          /\ Moved(b).formation.angle # e.formation.angle

---------------------------------------------------------------------------
(* The counter and the enemies (SpecEnemies).                              *)

\* The enemies whose despawn is queued.
EnemiesDespawned == {e \in enemies : Entity("enemy", e) \in commands.despawn}

\* C13: active_enemies counts the enemies: at the end of every tick it is
\* the number of live Enemy entities, each enemy destroyed costs exactly one
\* decrement and one ExplosionToSpawn, also when several player lasers
\* overlap it in one tick, and each enemy spawned adds exactly one.
CounterCountsEnemies ==
    /\ [](commands = NoCommands => active_enemies = Cardinality(enemies))
    /\ [](active_enemies =
             Cardinality(enemies \ EnemiesDespawned) + Cardinality(commands.enemies))
    /\ [][HitStep
            => LET destroyed ==
                      {e \in enemies : Entity("enemy", e) \in commands'.despawn}
                         \ EnemiesDespawned
               IN  /\ active_enemies - active_enemies' = Cardinality(destroyed)
                   /\ Cardinality(commands'.explosions)
                         = Cardinality(commands.explosions) + Cardinality(destroyed)
                   /\ \A e \in destroyed :
                         Cardinality({x \in commands'.explosions \ commands.explosions :
                                         x.x = e.x /\ x.y = e.y}) >= 1]_vars
    /\ [][SpawnStep
            => active_enemies' - active_enemies
                  = Cardinality(commands'.enemies \ commands.enemies)]_vars

\* C13 happens: two player lasers have hit one of two enemies in one tick,
\* which left one decrement and one ExplosionToSpawn.
OneExplosionForTwoLasers ==
    /\ ran["player_laser_hit_enemy"] = "done"
    /\ Cardinality(enemies) = 2
    /\ Cardinality(EnemiesDespawned) = 1
    /\ active_enemies = 1
    /\ Cardinality(commands.explosions) = 1
    /\ Cardinality({l \in LasersFrom("FromPlayer") :
                       Entity("laser", l) \in commands.despawn}) = 2

---------------------------------------------------------------------------
(* Properties of enemy_fire (SpecPlayer).                                  *)

\* C14: a tick of enemy_fire creates exactly one enemy laser for each live
\* enemy, at (enemy.x, enemy.y - 15) with speed 500, none when no enemy is
\* live, and changes no enemy and no counter.
OneLaserPerEnemy ==
    [][Runs("enemy_fire")
         => LET fired == commands'.lasers \ commands.lasers
            IN  /\ Cardinality(fired) = Cardinality(enemies)
                /\ \A l \in fired :
                      /\ l.from = "FromEnemy"
                      /\ l.speed = 500
                      /\ \E e \in enemies : l.x = e.x /\ l.y = e.y - 15 * PX
                /\ \A e \in enemies :
                      Cardinality({l \in fired : l.x = e.x /\ l.y = e.y - 15 * PX})
                         = Cardinality({f \in enemies : f.x = e.x /\ f.y = e.y})
                /\ commands' = [commands EXCEPT !.lasers = commands'.lasers]
                /\ enemies' = enemies
                /\ lasers' = lasers
                /\ active_enemies' = active_enemies
                /\ group_seq' = group_seq
                /\ current_formation_members' = current_formation_members]_vars

\* C14 happens: enemy_fire has run with two enemies live, in different
\* places, and two enemy lasers are queued.
TwoEnemiesFired ==
    /\ ran["enemy_fire"] = "done"
    /\ Cardinality(enemies) = 2
    /\ Cardinality({<<e.x, e.y>> : e \in enemies}) = 2
    /\ Cardinality(PendingLasersFrom("FromEnemy")) = 2
    /\ \A e \in enemies :
          \E l \in PendingLasersFrom("FromEnemy") : l.x = e.x /\ l.y = e.y - 15 * PX

---------------------------------------------------------------------------
(* Properties of the game with both sides firing (SpecBattle).             *)

\* The lasers of one side whose despawn is queued.
LasersDespawned(origin) ==
    {l \in LasersFrom(origin) : Entity("laser", l) \in commands.despawn}

\* C15: an enemy, once spawned, is removed only by a collision with a
\* player laser: its despawn is queued by player_laser_hit_enemy alone,
\* together with that of a player laser, and it stays in the world, through
\* the ticks of every other system, until such a despawn is applied.
EnemiesRemovedOnlyByPlayerLasers ==
    /\ [][\A e \in enemies :
             (/\ Entity("enemy", e) \in commands'.despawn
              /\ Entity("enemy", e) \notin commands.despawn)
                => /\ HitStep
                   /\ \E l \in LasersFrom("FromPlayer") :
                         /\ Entity("laser", l) \in commands'.despawn
                         /\ Entity("laser", l) \notin commands.despawn]_vars
    /\ [][\A e \in enemies :
             e.id \notin Ids(enemies') => Entity("enemy", e) \in commands.despawn]_vars
    /\ [](EnemiesDespawned # {} => ran["player_laser_hit_enemy"] = "done")

\* C15 happens: an enemy that has fired, its laser in flight, off the
\* screen since it was spawned, is destroyed by a player laser.
EnemyDestroyedAfterFiring ==
    /\ ran["player_laser_hit_enemy"] = "done"
    /\ \E e \in EnemiesDespawned : e.x > (WINDOW_WIDTH * PX) \div 2
    /\ LasersDespawned("FromPlayer") # {}
    /\ LasersFrom("FromEnemy") # {}
    /\ LasersDespawned("FromEnemy") = {}

---------------------------------------------------------------------------
(* Properties of the enemy lasers in the long run (SpecLaserFair).         *)

\* Whether the enemy laser with this id is in the world.
EnemyLaserLive(id) == \E l \in LasersFrom("FromEnemy") : l.id = id

\* C16: every enemy laser is eventually destroyed: each tick of
\* enemy_laser_movment lowers its y by speed * tick, and when the ticks
\* keep coming it leaves the world, culled off the screen or on hitting
\* the player, after finitely many of them.
EnemyLasersEventuallyGone ==
    /\ [][Runs("enemy_laser_movment")
            => \A l \in LasersFrom("FromEnemy") :
                  \E m \in lasers' :
                     /\ m.id = l.id
                     /\ m.from = "FromEnemy"
                     /\ m.y = l.y - TickTravel(l)
                     /\ m.y < l.y]_vars
    /\ \A id \in 1..(MaxIds + 1) : EnemyLaserLive(id) ~> ~EnemyLaserLive(id)

\* C16 happens: the enemy lasers the game started with have all left, and
\* the player they passed is alive.
EnemyLasersGone ==
    /\ lasers = {}
    /\ players # {}
    /\ now > 1

---------------------------------------------------------------------------
(* Properties of the direction of travel (SpecPair).                       *)

\* Every formation the game holds: the template's and every enemy's copy.
Formations ==
    {e.formation : e \in EnemiesWithPending}
        \cup (IF current_formation = None THEN {} ELSE {current_formation})

\* C17: every formation starts at x = the window's width or its height,
\* both positive, so dir is +1 for every enemy: the branch dir = -1 is
\* never taken, and no tick of enemy_movment turns an angle backwards.
DirIsAlwaysPositive ==
    /\ [](\A f \in Formations :
             /\ f.start[1] \in {WINDOW_WIDTH * PX, WINDOW_HEIGHT * PX}
             /\ f.start[1] > 0
             /\ Dir(f) = 1)
    /\ [][Runs("enemy_movment")
            => \A e \in enemies : \A m \in enemies' :
                  m.id = e.id =>
                     /\ m.formation.angle >= e.formation.angle
                     /\ NextAngle(e) > e.formation.angle]_vars

\* C17 happens: enemies of a formation from either side of the coin are
\* in flight, and the first has turned beyond the angle it was made with.
BothSidesInFlight ==
    \E e \in enemies, m \in enemies :
       /\ e.formation.start[1] = WINDOW_WIDTH * PX
       /\ m.formation.start[1] = WINDOW_HEIGHT * PX
       /\ \E f \in {e.formation, m.formation} :
             /\ f.group_id = 1
             /\ f.angle > Atan2(f.start[2] - f.offset[1], f.start[1] - f.offset[2])

---------------------------------------------------------------------------
(* Properties of the player's life (SpecRespawn).                          *)

\* The players in the world whose despawn is not queued, and those whose
\* spawn is.
LivePlayers == Kept("player", players)

PendingPlayers == commands.players

\* A step that queues the spawn of a player.
PlayerSpawnStep == PendingPlayers' \ PendingPlayers # {}

\* C18: there is never more than one player, live or about to be: a step
\* creates a player only when it is player_spawn's and PlayerStatte.on is
\* false, and while on is false no player is live or about to be (the one
\* shot is in the world only until the stage ends, its despawn queued).
AtMostOnePlayer ==
    /\ [](/\ Cardinality(players \cup PendingPlayers) <= 1
          /\ ~player_state.on => LivePlayers = {} /\ PendingPlayers = {})
    /\ [][PlayerSpawnStep
            => /\ Runs("player_spawn")
               /\ ~player_state.on
               /\ player_state'.on
               /\ players = {}
               /\ Cardinality(PendingPlayers') = 1]_vars

\* C18 happens: after the startup a tick of player_spawn has queued a
\* player, which it does only for one that was shot, while no other is in
\* the world and an enemy laser is in flight.
PlayerSpawnedAgain ==
    /\ now > 0
    /\ Cardinality(PendingPlayers) = 1
    /\ players = {}
    /\ LasersFrom("FromEnemy") # {}

\* C19: after PlayerStatte::shot at time t no player is spawned while
\* now <= t + PLAYER_RESPAWN_DELAY: the state stays off with no player
\* about to be, and the step that spawns the next player is a player_spawn
\* tick with now > t + 2.
RespawnWaitsOutDelay ==
    /\ [](/\ player_state.last_shot > 0
          /\ now <= player_state.last_shot + PLAYER_RESPAWN_DELAY
          => ~player_state.on /\ PendingPlayers = {} /\ LivePlayers = {})
    /\ [][PlayerSpawnStep /\ player_state.last_shot > 0
            => /\ Runs("player_spawn")
               /\ now > player_state.last_shot + PLAYER_RESPAWN_DELAY]_vars

\* C19 happens: the player shot at t is respawned by the first tick of
\* player_spawn after t + 2; the spawn is queued.
RespawnedAfterDelay ==
    /\ PendingPlayers # {}
    /\ now > PLAYER_RESPAWN_DELAY + 2
    /\ ran["player_spawn"] = "done"
    /\ player_state.on

\* The explosions a step queues.
ExplosionsQueued == commands'.explosions \ commands.explosions

\* C20: each destruction of the player produces exactly one
\* ExplosionToSpawn, also when two or more enemy lasers overlap the player
\* in the same tick: the run of enemy_laser_hit_player that shoots the
\* player queues one explosion.
OneExplosionPerPlayerShot ==
    [][Runs("enemy_laser_hit_player") /\ player_state.on /\ ~player_state'.on
         => Cardinality(ExplosionsQueued) = 1]_vars

\* C20 fails: two enemy lasers overlapped the player in one tick, and the
\* stage has applied an explosion for each at the player's place.
TwoExplosionsForOnePlayer ==
    /\ ~player_state.on
    /\ players = {}
    /\ \E e \in explosions_to_spawn, f \in explosions_to_spawn :
          e.id # f.id /\ e.x = f.x /\ e.y = f.y
    /\ now = player_state.last_shot + 1

=============================================================================
